---- MODULE Spec2Model ----
(***************************************************************************)
(* Model of check_submission.py: the TODO-marker checker that compares a   *)
(* student's submission with the assignment it was derived from.           *)
(*                                                                         *)
(* A document is the result of text.splitlines(): a sequence of lines.  A  *)
(* line is a sequence of tokens; a token is one character ("x", "y", " ")  *)
(* or one whole marker ("// BEGIN-TODO(a)").  A joined segment is a        *)
(* sequence of the same tokens in which "\n" separates the lines.          *)
(***************************************************************************)
EXTENDS Integers, Sequences, FiniteSets, TLC

(* ------------------------------ bounds -------------------------------- *)

\* longest document made of marker lines only (single-document runs)
MaxMarkerLines == 6
\* longest document mixing two tags and text (single-document runs)
MaxDocLines == 5
\* longest document of an arbitrary (possibly malformed) pair
MaxSmallLines == 2
\* longest document of a pair of well-formed documents
MaxLines == 4

(* ------------------------------ lexing -------------------------------- *)

\* The tokens that tag_pattern matches, with the groups it captures.
Markers ==
    { [tok |-> "// BEGIN-TODO(a)", type |-> "BEGIN", tag |-> "a"],
      [tok |-> "// END-TODO(a)",   type |-> "END",   tag |-> "a"],
      [tok |-> "// BEGIN-TODO(b)", type |-> "BEGIN", tag |-> "b"],
      [tok |-> "// END-TODO(b)",   type |-> "END",   tag |-> "b"],
      [tok |-> "// BEGIN-TODO(c)", type |-> "BEGIN", tag |-> "c"],
      [tok |-> "// END-TODO(c)",   type |-> "END",   tag |-> "c"] }

MarkerToks == { m.tok : m \in Markers }

MarkerOf(tok) == CHOOSE m \in Markers : m.tok = tok

NoMatch == [found |-> FALSE, type |-> "", tag |-> ""]

\* tag_pattern.search(line): the first marker of the line, if any.
TagPatternSearch(line) ==
    LET hits == { i \in 1..Len(line) : line[i] \in MarkerToks }
    IN  IF hits = {} THEN NoMatch
        ELSE LET first == CHOOSE i \in hits : \A j \in hits : i <= j
                 m == MarkerOf(line[first])
             IN  [found |-> TRUE, type |-> m.type, tag |-> m.tag]

\* a pattern that matches blanks but not line breaks
WhitespaceNoNewline == {" "}

\* The characters matched by \s.
Whitespace == {" ", "\n"}

(* --------------------------- python helpers --------------------------- *)

Min(a, b) == IF a < b THEN a ELSE b
Max(a, b) == IF a > b THEN a ELSE b

\* s[lo:hi] with 0-based, clipped bounds.
Slice(s, lo, hi) ==
    LET l == Min(Max(lo, 0), Len(s))
        h == Min(Max(hi, 0), Len(s))
    IN  IF l >= h THEN << >> ELSE SubSeq(s, l + 1, h)

\* s[lo:]
SliceFrom(s, lo) == Slice(s, lo, Len(s))

\* s[i] with a 0-based index.
Item(s, i) == s[i + 1]

\* "\n".join(lines)
RECURSIVE Join(_)
Join(lines) ==
    IF lines = << >> THEN << >>
    ELSE IF Len(lines) = 1 THEN lines[1]
    ELSE lines[1] \o <<"\n">> \o Join(Tail(lines))

(* ------------------------------ results ------------------------------- *)

\* A raised ValueError: its kind and the values its message is formatted from.
Error(kind, tags, nums, texts) ==
    [kind |-> kind, tags |-> tags, nums |-> nums, texts |-> texts]

NoError == Error("", << >>, << >>, << >>)

\* The absent end line of tags[tag] = (line_num, None).
None == 0

(* ---------------------------- extract_tags ---------------------------- *)

HasTag(tags, tag) == \E i \in 1..Len(tags) : tags[i].tag = tag

IndexOfTag(tags, tag) == CHOOSE i \in 1..Len(tags) : tags[i].tag = tag

TagOk(tags) == [ok |-> TRUE, tags |-> tags, err |-> NoError]

TagFail(err) == [ok |-> FALSE, tags |-> << >>, err |-> err]

\* The scan of lines 36-49, from line line_num on (1-indexed).
RECURSIVE ScanLines(_, _, _)
ScanLines(lines, line_num, tags) ==
    IF line_num > Len(lines) THEN TagOk(tags)
    ELSE LET m == TagPatternSearch(lines[line_num]) IN
         IF ~m.found THEN ScanLines(lines, line_num + 1, tags)
         ELSE IF m.type = "BEGIN"
         THEN IF HasTag(tags, m.tag)
              THEN TagFail(Error("DuplicateBegin", <<m.tag>>, <<line_num>>, << >>))
              ELSE ScanLines(lines, line_num + 1,
                      Append(tags, [tag |-> m.tag, begin |-> line_num, end |-> None]))
         ELSE IF ~HasTag(tags, m.tag)
              THEN TagFail(Error("UnmatchedEnd", <<m.tag>>, <<line_num>>, << >>))
              ELSE LET i == IndexOfTag(tags, m.tag) IN
                   IF tags[i].end # None
                   THEN TagFail(Error("DuplicateEnd", <<m.tag>>, <<line_num>>, << >>))
                   ELSE ScanLines(lines, line_num + 1,
                           [tags EXCEPT ![i].end = line_num])

\* sorted(..., key = the (begin, end) tuple): insertion of one span.
SpanLess(s, t) == s.begin < t.begin \/ (s.begin = t.begin /\ s.end < t.end)

RECURSIVE InsertSorted(_, _)
InsertSorted(sorted, s) ==
    IF sorted = << >> THEN <<s>>
    ELSE IF SpanLess(s, Head(sorted)) THEN <<s>> \o sorted
    ELSE <<Head(sorted)>> \o InsertSorted(Tail(sorted), s)

RECURSIVE SortedTags(_)
SortedTags(tags) ==
    IF tags = << >> THEN << >>
    ELSE InsertSorted(SortedTags(SubSeq(tags, 1, Len(tags) - 1)), tags[Len(tags)])

\* Lines 52-54: the first tag, in insertion order, whose END is missing.
MissingEnd(tags) ==
    LET open == { i \in 1..Len(tags) : tags[i].end = None }
    IN  IF open = {} THEN 0 ELSE CHOOSE i \in open : \A j \in open : i <= j

\* the overlap test with an off-by-one: a span may not begin on the line right
\* after the previous END
FirstOverlapOffByOne(sorted) ==
    LET bad == { i \in 1..(Len(sorted) - 1) : sorted[i].end >= sorted[i + 1].begin - 1 }
    IN  IF bad = {} THEN 0 ELSE CHOOSE i \in bad : \A j \in bad : i <= j

\* the overlap test comparing the two END lines: only nesting is detected
FirstOverlapNestedOnly(sorted) ==
    LET bad == { i \in 1..(Len(sorted) - 1) : sorted[i].end > sorted[i + 1].end }
    IN  IF bad = {} THEN 0 ELSE CHOOSE i \in bad : \A j \in bad : i <= j

\* Lines 57-62: the first adjacent pair of sorted spans that overlaps.
FirstOverlap(sorted) ==
    LET bad == { i \in 1..(Len(sorted) - 1) : sorted[i].end > sorted[i + 1].begin }
    IN  IF bad = {} THEN 0 ELSE CHOOSE i \in bad : \A j \in bad : i <= j

extract_tags(lines) ==
    LET scan == ScanLines(lines, 1, << >>) IN
    IF ~scan.ok THEN scan
    ELSE LET tags == scan.tags
             open == MissingEnd(tags)
         IN  IF open # 0
             THEN TagFail(Error("UnmatchedBegin", <<tags[open].tag>>,
                                <<tags[open].begin>>, << >>))
             ELSE LET sorted == SortedTags(tags)
                      i == FirstOverlap(sorted)
                  IN  IF i # 0
                      THEN TagFail(Error("OverlappingTags",
                              <<sorted[i].tag, sorted[i + 1].tag>>,
                              <<sorted[i].begin, sorted[i].end,
                                sorted[i + 1].begin, sorted[i + 1].end>>, << >>))
                      ELSE TagOk(tags)

(* ---------------------- extract_original_segments --------------------- *)

\* the loop with "<=" for "<" at line 117: an empty gap yields a segment
RECURSIVE SegmentLoopEmptyGaps(_, _, _, _)
SegmentLoopEmptyGaps(lines, sorted, prev_end, segments) ==
    IF sorted = << >>
    THEN IF prev_end < Len(lines)
         THEN Append(segments, Join(SliceFrom(lines, prev_end)))
         ELSE segments
    ELSE LET begin == Head(sorted).begin
             end == Head(sorted).end
         IN  SegmentLoopEmptyGaps(lines, Tail(sorted), end,
                 IF prev_end <= begin - 1
                 THEN Append(segments, Join(Slice(lines, prev_end, begin - 1)))
                 ELSE segments)

\* the loop with the cursor advanced to the BEGIN line instead of the END
\* line at line 119: the payload and the END marker join the next segment
RECURSIVE SegmentLoopKeepsPayload(_, _, _, _)
SegmentLoopKeepsPayload(lines, sorted, prev_end, segments) ==
    IF sorted = << >>
    THEN IF prev_end < Len(lines)
         THEN Append(segments, Join(SliceFrom(lines, prev_end)))
         ELSE segments
    ELSE LET begin == Head(sorted).begin
         IN  SegmentLoopKeepsPayload(lines, Tail(sorted), begin,
                 IF prev_end < begin - 1
                 THEN Append(segments, Join(Slice(lines, prev_end, begin - 1)))
                 ELSE segments)

\* The loop of lines 116-119 over the sorted spans, then lines 121-122.
RECURSIVE SegmentLoop(_, _, _, _)
SegmentLoop(lines, sorted, prev_end, segments) ==
    IF sorted = << >>
    THEN IF prev_end < Len(lines)
         THEN Append(segments, Join(SliceFrom(lines, prev_end)))
         ELSE segments
    ELSE LET begin == Head(sorted).begin
             end == Head(sorted).end
         IN  SegmentLoop(lines, Tail(sorted), end,
                 IF prev_end < begin - 1
                 THEN Append(segments, Join(Slice(lines, prev_end, begin - 1)))
                 ELSE segments)

extract_original_segments(lines, tags) ==
    SegmentLoop(lines, SortedTags(tags), 0, << >>)

(* ---------------------------- compare_tags ---------------------------- *)

\* list(tags.keys())
TagOrder(tags) == [i \in 1..Len(tags) |-> tags[i].tag]

InSeq(x, s) == \E i \in 1..Len(s) : s[i] = x

CheckOk == [ok |-> TRUE, err |-> NoError]

CheckFail(err) == [ok |-> FALSE, err |-> err]

\* the walk of lines 92-96 started at the second position
FirstOrderMismatchFromSecond(assignment_tag_order, submission_tag_order) ==
    LET n == Min(Len(assignment_tag_order), Len(submission_tag_order))
        bad == { i \in 2..n : assignment_tag_order[i] # submission_tag_order[i] }
    IN  IF bad = {} THEN 0 ELSE CHOOSE i \in bad : \A j \in bad : i <= j

\* Lines 92-96: the first position at which the zipped orders differ.
FirstOrderMismatch(assignment_tag_order, submission_tag_order) ==
    LET n == Min(Len(assignment_tag_order), Len(submission_tag_order))
        bad == { i \in 1..n : assignment_tag_order[i] # submission_tag_order[i] }
    IN  IF bad = {} THEN 0 ELSE CHOOSE i \in bad : \A j \in bad : i <= j

compare_tags(assignment_tags, submission_tags) ==
    LET assignment_tag_order == TagOrder(assignment_tags)
        submission_tag_order == TagOrder(submission_tags)
        NotSubmitted(tag) == ~InSeq(tag, submission_tag_order)
        NotAssigned(tag) == ~InSeq(tag, assignment_tag_order)
        missing_tags == SelectSeq(assignment_tag_order, NotSubmitted)
        extra_tags == SelectSeq(submission_tag_order, NotAssigned)
        i == FirstOrderMismatch(assignment_tag_order, submission_tag_order)
    IN  IF missing_tags # << >>
        THEN CheckFail(Error("MissingTags", missing_tags, << >>, << >>))
        ELSE IF extra_tags # << >>
        THEN CheckFail(Error("ExtraTags", extra_tags, << >>, << >>))
        ELSE IF i # 0
        THEN CheckFail(Error("OrderMismatch",
                 <<assignment_tag_order[i], submission_tag_order[i]>>, <<i>>, << >>))
        ELSE CheckOk

(* ----------------------- insert_submission_tags ----------------------- *)

MergeOk(text) == [ok |-> TRUE, text |-> text, err |-> NoError]

MergeFail(err) == [ok |-> FALSE, text |-> << >>, err |-> err]

\* The loop of lines 145-164 from the k-th assignment tag on, then 167-169.
RECURSIVE InsertLoop(_, _, _, _, _, _, _)
InsertLoop(assignment_lines, submission_lines, assignment_tags, submission_tags, k, prev_end, result_lines) ==
    IF k > Len(assignment_tags)
    THEN MergeOk(Join(result_lines \o SliceFrom(assignment_lines, prev_end)))
    ELSE LET tag == assignment_tags[k].tag IN
         IF ~HasTag(submission_tags, tag)
         THEN MergeFail(Error("TagMissingInSubmission", <<tag>>, << >>, << >>))
         ELSE LET assignment_begin == assignment_tags[k].begin
                  assignment_end == assignment_tags[k].end
                  sub == submission_tags[IndexOfTag(submission_tags, tag)]
                  submission_begin == sub.begin
                  submission_end == sub.end
              IN  InsertLoop(assignment_lines, submission_lines,
                      assignment_tags, submission_tags, k + 1, assignment_end,
                      result_lines
                        \o Slice(assignment_lines, prev_end, assignment_begin)
                        \o <<Item(assignment_lines, assignment_begin)>>
                        \o Slice(submission_lines, submission_begin + 1, submission_end - 1)
                        \o <<Item(assignment_lines, assignment_end - 1)>>)

insert_submission_tags(assignment_lines, submission_lines, assignment_tags, submission_tags) ==
    InsertLoop(assignment_lines, submission_lines, assignment_tags, submission_tags,
               1, 0, << >>)

(* -------------------------- compare_segments -------------------------- *)

\* re.sub(r"\s+", "", segment): every maximal run of whitespace is deleted.
RECURSIVE SkipRun(_)
SkipRun(s) ==
    IF s # << >> /\ Head(s) \in Whitespace THEN SkipRun(Tail(s)) ELSE s

RECURSIVE StripWhitespace(_)
StripWhitespace(segment) ==
    IF segment = << >> THEN << >>
    ELSE IF Head(segment) \in Whitespace THEN StripWhitespace(SkipRun(segment))
    ELSE <<Head(segment)>> \o StripWhitespace(Tail(segment))

\* Lines 184-186: the first zipped pair whose stripped texts differ.
FirstModified(assignment_segments, submission_segments) ==
    LET n == Min(Len(assignment_segments), Len(submission_segments))
        bad == { i \in 1..n : StripWhitespace(assignment_segments[i])
                                # StripWhitespace(submission_segments[i]) }
    IN  IF bad = {} THEN 0 ELSE CHOOSE i \in bad : \A j \in bad : i <= j

compare_segments(assignment_segments, submission_segments) ==
    LET i == FirstModified(assignment_segments, submission_segments)
    IN  IF i # 0
        THEN CheckFail(Error("ContentModified", << >>, << >>,
                 <<assignment_segments[i], submission_segments[i]>>))
        ELSE CheckOk

(* --------------------------- check_filenames -------------------------- *)

\* A file name is <<base, suffix>>.
FileNames ==
    { <<"hw1", "-assignment.dfy">>, <<"hw1", "-submission.dfy">>, <<"hw1", ".txt">> }

\* re.sub(r"-assignment.dfy$", "-submission.dfy", assignment_file)
ExpectedSubmissionFile(assignment_file) ==
    IF assignment_file[2] = "-assignment.dfy"
    THEN <<assignment_file[1], "-submission.dfy">>
    ELSE assignment_file

check_filenames(assignment_file, submission_file, no_filename_check) ==
    IF assignment_file[2] # "-assignment.dfy"
    THEN CheckFail(Error("FilenameConvention", << >>, << >>, <<assignment_file>>))
    ELSE LET expected_submission_file == ExpectedSubmissionFile(assignment_file) IN
         IF submission_file # expected_submission_file /\ ~no_filename_check
         THEN CheckFail(Error("FilenameConvention", << >>, << >>,
                               <<expected_submission_file>>))
         ELSE CheckOk

(* ------------------------------- inputs ------------------------------- *)

SeqsUpTo(S, n) == UNION { [1..k -> S] : k \in 0..n }

MarkerLines(tagset) == { <<m.tok>> : m \in { mm \in Markers : mm.tag \in tagset } }

\* single-document runs: marker-only documents over three tags, and
\* documents that mix two tags with text and blank lines
DocInputs ==
    SeqsUpTo(MarkerLines({"a", "b", "c"}), MaxMarkerLines)
      \cup SeqsUpTo(MarkerLines({"a", "b"}) \cup {<<"x">>, << >>}, MaxDocLines)

\* pairs: every pair of short documents, well-formed or not, and every pair
\* of longer well-formed documents
SmallDocs ==
    SeqsUpTo(MarkerLines({"a", "b"}) \cup {<<"x">>, <<"y">>, <<" ">>}, MaxSmallLines)

WellFormedDocs ==
    { d \in SeqsUpTo(MarkerLines({"a", "b"}) \cup {<<"x">>, <<" ">>}, MaxLines) :
        extract_tags(d).ok }

PairInputs == (SmallDocs \X SmallDocs) \cup (WellFormedDocs \X WellFormedDocs)

(* ------------------------------- state -------------------------------- *)

VARIABLES
    pc,                     \* the statement about to run
    lines,                  \* text.splitlines() of a single document
    tags,                   \* extract_tags(text)
    segments,               \* extract_original_segments(text, tags)
    assignment_lines,       \* assignment_text.splitlines()
    submission_lines,       \* submission_text.splitlines()
    filename_check,         \* outcome of check_filenames
    assignment_tags,        \* extract_tags(assignment_text)
    submission_tags,        \* extract_tags(submission_text)
    tags_check,             \* outcome of compare_tags
    assignment_segments,
    submission_segments,
    segments_check,         \* outcome of compare_segments
    verdict,                \* what check_submission returns
    merged                  \* what insert_submission_tags returns

vars == <<pc, lines, tags, segments, assignment_lines, submission_lines,
          filename_check, assignment_tags, submission_tags, tags_check,
          assignment_segments, submission_segments, segments_check, verdict, merged>>

docVars == <<lines, tags, segments>>

pairVars == <<assignment_lines, submission_lines, filename_check, assignment_tags,
              submission_tags, tags_check, assignment_segments, submission_segments,
              segments_check, verdict, merged>>

NotRun == Error("NotRun", << >>, << >>, << >>)

TagsNotRun == TagFail(NotRun)

CheckNotRun == CheckFail(NotRun)

MergeNotRun == MergeFail(NotRun)

NoVerdict == [text |-> "", err |-> NoError]

Accepted == [text |-> "The submission is ACCEPTED.", err |-> NoError]

Rejected(e) == [text |-> "The submission is REJECTED.", err |-> e]

DocIdle ==
    /\ lines = << >>
    /\ tags = TagsNotRun
    /\ segments = << >>

PairIdle ==
    /\ assignment_lines = << >>
    /\ submission_lines = << >>
    /\ filename_check = CheckNotRun
    /\ assignment_tags = TagsNotRun
    /\ submission_tags = TagsNotRun
    /\ tags_check = CheckNotRun
    /\ assignment_segments = << >>
    /\ submission_segments = << >>
    /\ segments_check = CheckNotRun
    /\ verdict = NoVerdict
    /\ merged = MergeNotRun

(* ---------------------- single-document operations -------------------- *)

DocInit ==
    /\ pc = "extract_tags"
    /\ lines \in DocInputs
    /\ tags = TagsNotRun
    /\ segments = << >>
    /\ PairIdle

ExtractTags ==
    /\ pc = "extract_tags"
    /\ tags' = extract_tags(lines)
    /\ pc' = IF tags'.ok THEN "extract_original_segments" ELSE "raised"
    /\ UNCHANGED <<lines, segments>>
    /\ UNCHANGED pairVars

ExtractOriginalSegments ==
    /\ pc = "extract_original_segments"
    /\ segments' = extract_original_segments(lines, tags.tags)
    /\ pc' = "returned"
    /\ UNCHANGED <<lines, tags>>
    /\ UNCHANGED pairVars

DocNext == ExtractTags \/ ExtractOriginalSegments

SpecDoc == DocInit /\ [][DocNext]_vars

(* --------------------------- check_submission ------------------------- *)

Init ==
    /\ pc = "check_filenames"
    /\ \E pair \in PairInputs :
         /\ assignment_lines = pair[1]
         /\ submission_lines = pair[2]
    /\ filename_check = CheckNotRun
    /\ assignment_tags = TagsNotRun
    /\ submission_tags = TagsNotRun
    /\ tags_check = CheckNotRun
    /\ assignment_segments = << >>
    /\ submission_segments = << >>
    /\ segments_check = CheckNotRun
    /\ verdict = NoVerdict
    /\ merged = MergeNotRun
    /\ DocIdle

\* Lines 236-239.
CheckFilenames ==
    /\ pc = "check_filenames"
    /\ \E assignment_file \in FileNames, submission_file \in FileNames,
          no_filename_check \in BOOLEAN :
         filename_check' = check_filenames(assignment_file, submission_file,
                                           no_filename_check)
    /\ IF filename_check'.ok
       THEN pc' = "extract_tags" /\ UNCHANGED verdict
       ELSE pc' = "done" /\ verdict' = Rejected(filename_check'.err)
    /\ UNCHANGED <<assignment_lines, submission_lines, assignment_tags, submission_tags,
                   tags_check, assignment_segments, submission_segments,
                   segments_check, merged>>
    /\ UNCHANGED docVars

\* the two extractions of lines 245-246 in the other order
ExtractBothTagsSubmissionFirst ==
    /\ pc = "extract_tags"
    /\ submission_tags' = extract_tags(submission_lines)
    /\ IF submission_tags'.ok
       THEN /\ assignment_tags' = extract_tags(assignment_lines)
            /\ IF assignment_tags'.ok
               THEN pc' = "compare_tags" /\ UNCHANGED verdict
               ELSE pc' = "done" /\ verdict' = Rejected(assignment_tags'.err)
       ELSE /\ UNCHANGED assignment_tags
            /\ pc' = "done"
            /\ verdict' = Rejected(submission_tags'.err)
    /\ UNCHANGED <<assignment_lines, submission_lines, filename_check, tags_check,
                   assignment_segments, submission_segments, segments_check, merged>>
    /\ UNCHANGED docVars

\* Lines 244-248: both extractions share one try block.
ExtractBothTags ==
    /\ pc = "extract_tags"
    /\ assignment_tags' = extract_tags(assignment_lines)
    /\ IF assignment_tags'.ok
       THEN /\ submission_tags' = extract_tags(submission_lines)
            /\ IF submission_tags'.ok
               THEN pc' = "compare_tags" /\ UNCHANGED verdict
               ELSE pc' = "done" /\ verdict' = Rejected(submission_tags'.err)
       ELSE /\ UNCHANGED submission_tags
            /\ pc' = "done"
            /\ verdict' = Rejected(assignment_tags'.err)
    /\ UNCHANGED <<assignment_lines, submission_lines, filename_check, tags_check,
                   assignment_segments, submission_segments, segments_check, merged>>
    /\ UNCHANGED docVars

\* Lines 250-253.
CompareTags ==
    /\ pc = "compare_tags"
    /\ tags_check' = compare_tags(assignment_tags.tags, submission_tags.tags)
    /\ IF tags_check'.ok
       THEN pc' = "extract_original_segments" /\ UNCHANGED verdict
       ELSE pc' = "done" /\ verdict' = Rejected(tags_check'.err)
    /\ UNCHANGED <<assignment_lines, submission_lines, filename_check, assignment_tags,
                   submission_tags, assignment_segments, submission_segments,
                   segments_check, merged>>
    /\ UNCHANGED docVars

\* Lines 255-256.
ExtractBothSegments ==
    /\ pc = "extract_original_segments"
    /\ assignment_segments' = extract_original_segments(assignment_lines, assignment_tags.tags)
    /\ submission_segments' = extract_original_segments(submission_lines, submission_tags.tags)
    /\ pc' = "compare_segments"
    /\ UNCHANGED <<assignment_lines, submission_lines, filename_check, assignment_tags,
                   submission_tags, tags_check, segments_check, verdict, merged>>
    /\ UNCHANGED docVars

\* Lines 258-263.
CompareSegments ==
    /\ pc = "compare_segments"
    /\ segments_check' = compare_segments(assignment_segments, submission_segments)
    /\ verdict' = IF segments_check'.ok THEN Accepted ELSE Rejected(segments_check'.err)
    /\ pc' = "done"
    /\ UNCHANGED <<assignment_lines, submission_lines, filename_check, assignment_tags,
                   submission_tags, tags_check, assignment_segments, submission_segments,
                   merged>>
    /\ UNCHANGED docVars

\* insert_submission_tags, called with the tag maps of two extracted documents.
InsertSubmissionTags ==
    /\ pc = "done"
    /\ assignment_tags.ok
    /\ submission_tags.ok
    /\ merged' = insert_submission_tags(assignment_lines, submission_lines,
                                        assignment_tags.tags, submission_tags.tags)
    /\ pc' = "merged"
    /\ UNCHANGED <<assignment_lines, submission_lines, filename_check, assignment_tags,
                   submission_tags, tags_check, assignment_segments, submission_segments,
                   segments_check, verdict>>
    /\ UNCHANGED docVars

Next ==
    \/ CheckFilenames
    \/ ExtractBothTags
    \/ CompareTags
    \/ ExtractBothSegments
    \/ CompareSegments
    \/ InsertSubmissionTags

Spec == Init /\ [][Next]_vars

(* ===================== properties of extract_tags ===================== *)

AllTags == { m.tag : m \in Markers }

IsMarkerLine(d, i, type, tag) ==
    LET m == TagPatternSearch(d[i]) IN m.found /\ m.type = type /\ m.tag = tag

BeginsOf(d, t) == { i \in 1..Len(d) : IsMarkerLine(d, i, "BEGIN", t) }

EndsOf(d, t) == { i \in 1..Len(d) : IsMarkerLine(d, i, "END", t) }

TagsIn(d) == { t \in AllTags : BeginsOf(d, t) \cup EndsOf(d, t) # {} }

TheBegin(d, t) == CHOOSE i \in BeginsOf(d, t) : TRUE

TheEnd(d, t) == CHOOSE i \in EndsOf(d, t) : TRUE

\* every tag has exactly one BEGIN, followed later by exactly one END
WellPaired(d) ==
    \A t \in TagsIn(d) :
        /\ Cardinality(BeginsOf(d, t)) = 1
        /\ Cardinality(EndsOf(d, t)) = 1
        /\ TheBegin(d, t) < TheEnd(d, t)

NonOverlapping(d) ==
    \A t, u \in TagsIn(d) :
        t # u => (TheEnd(d, t) < TheBegin(d, u) \/ TheEnd(d, u) < TheBegin(d, t))

TagsComputed == pc \in {"extract_original_segments", "raised", "returned"}

\* C3: on a document whose tags each have exactly one BEGIN followed later by
\* exactly one END and whose spans do not overlap, extract_tags succeeds; the
\* map has exactly one entry per tag of the document, each entry is the
\* 1-indexed (BEGIN line, END line) with end > begin, and the entries are in
\* the order of the BEGIN lines.
C3_WellFormedExtracts ==
    (TagsComputed /\ WellPaired(lines) /\ NonOverlapping(lines)) =>
        /\ tags.ok
        /\ Len(tags.tags) = Cardinality(TagsIn(lines))
        /\ { tags.tags[i].tag : i \in 1..Len(tags.tags) } = TagsIn(lines)
        /\ \A i \in 1..Len(tags.tags) :
              /\ tags.tags[i].begin = TheBegin(lines, tags.tags[i].tag)
              /\ tags.tags[i].end = TheEnd(lines, tags.tags[i].tag)
              /\ tags.tags[i].end > tags.tags[i].begin
        /\ \A i, j \in 1..Len(tags.tags) :
              i < j => tags.tags[i].begin < tags.tags[j].begin

\* three spans, the last of them ending right before the next one begins,
\* returned in an order that is not the alphabetical one
C3_Witness ==
    /\ pc = "returned"
    /\ tags.ok
    /\ TagOrder(tags.tags) = <<"c", "a", "b">>
    /\ tags.tags[1].end + 1 = tags.tags[2].begin

HasUnmatchedBegin(d) ==
    \E t \in AllTags : \E i \in BeginsOf(d, t) : \A j \in EndsOf(d, t) : j < i

HasUnmatchedEnd(d) ==
    \E t \in AllTags : \E j \in EndsOf(d, t) : \A i \in BeginsOf(d, t) : i > j

HasDuplicateBegin(d) == \E t \in AllTags : Cardinality(BeginsOf(d, t)) > 1

HasDuplicateEnd(d) == \E t \in AllTags : Cardinality(EndsOf(d, t)) > 1

\* the BEGIN of u lies between the BEGIN and an END of t
Overlap(d, t, u) ==
    /\ t # u
    /\ \E bt \in BeginsOf(d, t), et \in EndsOf(d, t), bu \in BeginsOf(d, u) :
          bt < bu /\ bu < et

HasOverlap(d) == \E t, u \in AllTags : Overlap(d, t, u)

DefectOf(kind, d) ==
    CASE kind = "UnmatchedBegin" -> HasUnmatchedBegin(d)
      [] kind = "UnmatchedEnd" -> HasUnmatchedEnd(d)
      [] kind = "DuplicateBegin" -> HasDuplicateBegin(d)
      [] kind = "DuplicateEnd" -> HasDuplicateEnd(d)
      [] kind = "OverlappingTags" -> HasOverlap(d)
      [] OTHER -> FALSE

\* C4: extract_tags fails on every document with an unmatched BEGIN, an
\* unmatched END, a duplicate BEGIN, a duplicate END or two overlapping spans
\* (nested or not, adjacent in begin order or not), the failure names a defect
\* the document has, and every map it returns has begin < end for each span
\* and pairwise distinct tags and disjoint spans.
C4_MalformedFails ==
    TagsComputed =>
        /\ (HasUnmatchedBegin(lines) \/ HasUnmatchedEnd(lines) \/ HasDuplicateBegin(lines)
              \/ HasDuplicateEnd(lines) \/ HasOverlap(lines)) => ~tags.ok
        /\ ~tags.ok => (tags.tags = << >> /\ DefectOf(tags.err.kind, lines))
        /\ tags.ok =>
              /\ \A i \in 1..Len(tags.tags) : tags.tags[i].begin < tags.tags[i].end
              /\ \A i, j \in 1..Len(tags.tags) :
                    i # j => /\ tags.tags[i].tag # tags.tags[j].tag
                             /\ \/ tags.tags[i].end < tags.tags[j].begin
                                \/ tags.tags[j].end < tags.tags[i].begin

\* the only defect is an overlap of two spans that are not adjacent in begin
\* order: a span that encloses two others, overlapping the second of them
C4_Witness ==
    /\ pc = "raised"
    /\ tags.err.kind = "OverlappingTags"
    /\ WellPaired(lines)
    /\ \E t, u, w \in TagsIn(lines) :
          /\ Overlap(lines, t, w)
          /\ TheBegin(lines, t) < TheBegin(lines, u)
          /\ TheEnd(lines, u) < TheBegin(lines, w)

(* ================ properties of extract_original_segments ============== *)

\* the lines outside every span (BEGIN line through END line)
Outside(d, tg) ==
    { i \in 1..Len(d) : \A k \in 1..Len(tg) : i < tg[k].begin \/ i > tg[k].end }

\* the maximal runs of consecutive outside lines, by their first line
RunStarts(d, tg) == { i \in Outside(d, tg) : (i - 1) \notin Outside(d, tg) }

RunEnd(d, tg, i) ==
    CHOOSE j \in i..Len(d) :
        /\ \A k \in i..j : k \in Outside(d, tg)
        /\ (j + 1) \notin Outside(d, tg)

NthSmallest(S, k) == CHOOSE x \in S : Cardinality({ y \in S : y < x }) = k - 1

\* segment.split("\n")
RECURSIVE SplitLines(_, _)
SplitLines(seg, current) ==
    IF seg = << >> THEN <<current>>
    ELSE IF Head(seg) = "\n" THEN <<current>> \o SplitLines(Tail(seg), << >>)
    ELSE SplitLines(Tail(seg), Append(current, Head(seg)))

\* the pieces of a document: its spans and its segments, by their first line
Pieces(d, tg, segs) ==
    [ i \in { tg[k].begin : k \in 1..Len(tg) } \cup RunStarts(d, tg) |->
        IF i \in RunStarts(d, tg)
        THEN SplitLines(segs[Cardinality({ r \in RunStarts(d, tg) : r <= i })], << >>)
        ELSE LET k == CHOOSE kk \in 1..Len(tg) : tg[kk].begin = i
             IN  SubSeq(d, tg[k].begin, tg[k].end) ]

RECURSIVE Rejoin(_, _)
Rejoin(pieces, starts) ==
    IF starts = {} THEN << >>
    ELSE LET first == NthSmallest(starts, 1)
         IN  pieces[first] \o Rejoin(pieces, starts \ {first})

\* C6: the segments of a document are exactly the maximal runs of lines
\* outside all spans, in line order, each with at least one line; rejoining
\* them with the spans in line order gives back the document.
C6_SegmentsPartition ==
    pc = "returned" =>
        LET starts == RunStarts(lines, tags.tags) IN
        /\ Len(segments) = Cardinality(starts)
        /\ \A k \in 1..Len(segments) :
              LET first == NthSmallest(starts, k)
                  run == SubSeq(lines, first, RunEnd(lines, tags.tags, first))
              IN  /\ SplitLines(segments[k], << >>) = run
                  /\ Len(run) >= 1
        /\ Len(segments) = Cardinality(starts) =>
              Rejoin(Pieces(lines, tags.tags, segments), DOMAIN Pieces(lines, tags.tags, segments))
                 = lines

\* a blank line before a span with a payload, and a line after it
C6_Witness ==
    /\ pc = "returned"
    /\ Len(segments) = 2
    /\ segments[1] = << >>
    /\ \E k \in 1..Len(tags.tags) : tags.tags[k].end > tags.tags[k].begin + 1

(* ====================== properties of compare_tags ===================== *)

TagsCompared == tags_check.err.kind # "NotRun"

SeqToSet(q) == { q[i] : i \in 1..Len(q) }

\* the elements of q that are not in the set S, in the order of q
RECURSIVE Without(_, _)
Without(q, S) ==
    IF q = << >> THEN << >>
    ELSE IF Head(q) \in S THEN Without(Tail(q), S)
    ELSE <<Head(q)>> \o Without(Tail(q), S)

\* C5: compare_tags succeeds exactly when the two tag sequences are the same
\* sequence; otherwise it fails with MissingTags listing all template tags
\* absent from the submission if there are any, else with ExtraTags listing
\* all submission tags absent from the template if there are any, else with
\* OrderMismatch at the first position where the sequences differ.
C5_CompareTags ==
    TagsCompared =>
        LET a == TagOrder(assignment_tags.tags)
            b == TagOrder(submission_tags.tags)
            missing == Without(a, SeqToSet(b))
            extra == Without(b, SeqToSet(a))
            e == tags_check.err
        IN  /\ tags_check.ok <=> (a = b)
            /\ ~tags_check.ok =>
                  IF missing # << >>
                  THEN e.kind = "MissingTags" /\ e.tags = missing
                  ELSE IF extra # << >>
                  THEN e.kind = "ExtraTags" /\ e.tags = extra
                  ELSE /\ e.kind = "OrderMismatch"
                       /\ Len(e.nums) = 1
                       /\ e.nums[1] \in 1..Len(a)
                       /\ a[e.nums[1]] # b[e.nums[1]]
                       /\ \A j \in 1..(e.nums[1] - 1) : a[j] = b[j]
                       /\ e.tags = <<a[e.nums[1]], b[e.nums[1]]>>

\* template order [a, b] against submission order [b, a]
C5_Witness ==
    /\ TagOrder(assignment_tags.tags) = <<"a", "b">>
    /\ TagOrder(submission_tags.tags) = <<"b", "a">>
    /\ tags_check.err.kind = "OrderMismatch"
    /\ tags_check.err.nums = <<1>>
    /\ verdict = Rejected(tags_check.err)

(* ==================== properties of compare_segments =================== *)

\* spaces, tabs and newlines
Blank == {" ", "\t", "\n"}

IsInk(c) == c \notin Blank

\* the non-whitespace character stream of a text
Ink(text) == SelectSeq(text, IsInk)

SegmentsCompared == segments_check.err.kind # "NotRun"

\* C7: two corresponding segments are equal exactly when their character
\* streams without whitespace are identical; compare_segments succeeds when
\* every positional pair is equal in that sense and otherwise fails with
\* ContentModified carrying the raw texts of the first differing pair.
C7_CompareSegments ==
    SegmentsCompared =>
        LET n == Min(Len(assignment_segments), Len(submission_segments))
            Same(i) == Ink(assignment_segments[i]) = Ink(submission_segments[i])
        IN  /\ segments_check.ok <=> \A i \in 1..n : Same(i)
            /\ ~segments_check.ok =>
                  /\ segments_check.err.kind = "ContentModified"
                  /\ \E i \in 1..n :
                        /\ ~Same(i)
                        /\ \A j \in 1..(i - 1) : Same(j)
                        /\ segments_check.err.texts
                             = <<assignment_segments[i], submission_segments[i]>>

\* both pairs differ, and the first one is the one reported
C7_Witness ==
    /\ SegmentsCompared
    /\ Len(assignment_segments) = 2
    /\ Len(submission_segments) = 2
    /\ Ink(assignment_segments[1]) # Ink(submission_segments[1])
    /\ Ink(assignment_segments[2]) # Ink(submission_segments[2])
    /\ <<assignment_segments[1], submission_segments[1]>>
         # <<assignment_segments[2], submission_segments[2]>>
    /\ segments_check.err.texts = <<assignment_segments[1], submission_segments[1]>>

(* ===================== properties of check_submission ================== *)

Returned == pc \in {"done", "merged"}

\* a document without the lines strictly inside its spans
RECURSIVE Skeleton(_, _, _)
Skeleton(d, i, inside) ==
    IF i > Len(d) THEN << >>
    ELSE LET m == TagPatternSearch(d[i]) IN
         IF m.found THEN <<d[i]>> \o Skeleton(d, i + 1, m.type = "BEGIN")
         ELSE IF inside THEN Skeleton(d, i + 1, inside)
         ELSE <<d[i]>> \o Skeleton(d, i + 1, inside)

\* the submission is the template with other non-marker lines inside the spans
PayloadOnly ==
    /\ WellPaired(assignment_lines)
    /\ NonOverlapping(assignment_lines)
    /\ Skeleton(assignment_lines, 1, FALSE) = Skeleton(submission_lines, 1, FALSE)

\* C8: when the submission keeps every marker line and every line outside the
\* spans of a well-formed template and only replaces the lines inside the
\* spans by any number of non-marker lines, the stages after the filename
\* check return ACCEPTED.
C8_PayloadIsFree ==
    (Returned /\ filename_check.ok /\ PayloadOnly) => verdict = Accepted

\* protected text around a span whose payload changed in length
C8_Witness ==
    /\ Returned
    /\ PayloadOnly
    /\ verdict = Accepted
    /\ assignment_segments # << >>
    /\ assignment_tags.tags # << >>
    /\ Len(assignment_lines) # Len(submission_lines)

\* the verdict of the stages after the filename check, from the two documents
ExpectedVerdict ==
    LET at == extract_tags(assignment_lines)
        st == extract_tags(submission_lines)
        tc == compare_tags(at.tags, st.tags)
        sc == compare_segments(extract_original_segments(assignment_lines, at.tags),
                               extract_original_segments(submission_lines, st.tags))
    IN  IF ~at.ok THEN Rejected(at.err)
        ELSE IF ~st.ok THEN Rejected(st.err)
        ELSE IF ~tc.ok THEN Rejected(tc.err)
        ELSE IF ~sc.ok THEN Rejected(sc.err)
        ELSE Accepted

\* the statements of check_submission; the action of each has no other guard
Statements ==
    {"check_filenames", "extract_tags", "compare_tags", "extract_original_segments",
     "compare_segments"}

\* C9: check_submission always ends with a verdict; the verdict is REJECTED
\* with the message of the first failing stage in the order filename check,
\* extract_tags(template), extract_tags(submission), compare_tags,
\* compare_segments, no stage after a failed one has run, and the verdict is
\* ACCEPTED exactly when no stage fails.
C9_FirstFailureDecides ==
    /\ ~Returned => (verdict = NoVerdict /\ pc \in Statements)
    /\ Returned =>
          /\ verdict.text \in {"The submission is ACCEPTED.", "The submission is REJECTED."}
          /\ IF ~filename_check.ok
             THEN /\ verdict = Rejected(filename_check.err)
                  /\ assignment_tags = TagsNotRun
             ELSE verdict = ExpectedVerdict
          /\ ~assignment_tags.ok => submission_tags = TagsNotRun
          /\ ~(assignment_tags.ok /\ submission_tags.ok) => tags_check = CheckNotRun
          /\ ~tags_check.ok =>
                /\ assignment_segments = << >>
                /\ submission_segments = << >>
                /\ segments_check = CheckNotRun
          /\ verdict = Accepted <=>
                /\ filename_check.ok
                /\ assignment_tags.ok
                /\ submission_tags.ok
                /\ tags_check.ok
                /\ segments_check.ok

\* both documents are malformed in different ways: the template's failure is
\* the one reported
C9_Witness ==
    /\ Returned
    /\ filename_check.ok
    /\ ~extract_tags(assignment_lines).ok
    /\ ~extract_tags(submission_lines).ok
    /\ extract_tags(assignment_lines).err # extract_tags(submission_lines).err
    /\ verdict = Rejected(extract_tags(assignment_lines).err)

(* ============== what the code does not guarantee as claimed ============ *)

\* the lines of gap k: after the k-th span (from the start for k = 0) and
\* before the (k+1)-th span (to the end for the last gap), spans in tag order
Gap(d, tg, k) ==
    LET from == IF k = 0 THEN 1 ELSE tg[k].end + 1
        to == IF k = Len(tg) THEN Len(d) ELSE tg[k + 1].begin - 1
    IN  IF from > to THEN << >> ELSE SubSeq(d, from, to)

\* C1: whenever the verdict is ACCEPTED, every gap of the template and the
\* same gap of the submission have the same non-whitespace character stream.
C1_AcceptedKeepsProtectedText ==
    (Returned /\ verdict = Accepted) =>
        \A k \in 0..Len(assignment_tags.tags) :
            Ink(Join(Gap(assignment_lines, assignment_tags.tags, k)))
              = Ink(Join(Gap(submission_lines, submission_tags.tags, k)))

NonEmptyGaps(d, tg) == { k \in 0..Len(tg) : Gap(d, tg, k) # << >> }

\* C10: once compare_tags has passed, both documents yield the same number of
\* segments, and the i-th segments of both come from the same gap.
C10_SegmentsCorrespond ==
    (tags_check.ok /\ pc \in {"compare_segments", "done", "merged"}) =>
        /\ Len(assignment_segments) = Len(submission_segments)
        /\ NonEmptyGaps(assignment_lines, assignment_tags.tags)
             = NonEmptyGaps(submission_lines, submission_tags.tags)

\* the merged lines for the tags from the k-th on, as the claim describes them
RECURSIVE ExpectedMerge(_, _, _, _, _)
ExpectedMerge(a, b, at, bt, k) ==
    IF k > Len(at)
    THEN Gap(a, at, Len(at))
    ELSE LET sub == bt[IndexOfTag(bt, at[k].tag)]
         IN  Gap(a, at, k - 1)
               \o <<a[at[k].begin]>>
               \o (IF sub.begin + 1 > sub.end - 1 THEN << >>
                   ELSE SubSeq(b, sub.begin + 1, sub.end - 1))
               \o <<a[at[k].end]>>
               \o ExpectedMerge(a, b, at, bt, k + 1)

\* C2: on a pair that passes compare_tags, insert_submission_tags returns,
\* for each tag, the template up to and including its BEGIN line, then the
\* submission's lines strictly between its markers, then the template's END
\* line once, and at last the template's trailing lines.
C2_MergeKeepsPayload ==
    (pc = "merged" /\ tags_check.ok) =>
        /\ merged.ok
        /\ merged.text = Join(ExpectedMerge(assignment_lines, submission_lines,
                                  assignment_tags.tags, submission_tags.tags, 1))

====
